---- MODULE Spec2Model ----
(***************************************************************************)
(* A model of the lox-rust front end: the hand-written scanner             *)
(* (src/lexer/lexer.rs), the token model (src/lexer/token.rs, types.rs),   *)
(* the recursive-descent parser (src/ast/syntax_tree.rs), the syntax-tree  *)
(* printer (src/ast/printer.rs), the interpreter (src/ast/interpreter.rs)  *)
(* and main (src/main.rs): its arguments, the file it reads and its        *)
(* commands.                                                               *)
(*                                                                         *)
(* Characters are strings of length one; source text, lexemes and string   *)
(* payloads are sequences of characters.  The cursor `current` is the      *)
(* 0-based index of lexer.rs, so the character under the cursor is         *)
(* characters[current + 1].                                                *)
(***************************************************************************)
EXTENDS Integers, Sequences, FiniteSets, TLC

VARIABLES
    characters,   \* Lexer.characters : the source text
    current,      \* Lexer.current    : cursor into characters (0-based)
    line,         \* Lexer.line
    character,    \* Lexer.character
    tokens,       \* the vector get_tokens is building / has returned
    spans,        \* history: for each pushed token, the cursor before its
                  \* first character and the cursor after its last one
    wrapped,      \* a u32 overflow has already wrapped silently (only a
                  \* build without overflow checks gets past one)
    pc,           \* "main", "unknown", "scan", "panic", "scanned", "parsed",
                  \* "exit", "abort"
    result,       \* the Result<Expr, ParserError> of SyntaxTree::expression
    command,      \* args[1]: "tokenize", "parse", "evaluate" or a word main
                  \* does not know; "reparse": parse, print, then scan and
                  \* parse the printed text
    stdout,       \* the tree printed by the parse command, the tokens
                  \* printed by the tokenize command
    outcome,      \* the Result<Value, Error> of the evaluation
    exit_code,    \* the exit code of the process, Running before it ends
    original,     \* reparse: the tree whose printed text is parsed again
    args_len,     \* args.len(): the program name, the command, the filename
    file,         \* the file named by args[2]: readable or not, its contents
    stderr        \* the messages written to stderr

vars == <<characters, current, line, character, tokens, spans, wrapped,
          pc, result, command, stdout, outcome, exit_code, original,
          args_len, file, stderr>>

\* what main is started with
launch == <<args_len, file>>

-----------------------------------------------------------------------------
(* Bounds of the model.                                                    *)

\* longest source drawn from LexAlphabet
MaxLen == 3
\* longest run drawn from DigitAlphabet
MaxDigits == 11
\* most words of ParseWords in a source
MaxWords == 5
\* most words of GroupWords in a source
MaxGroupWords == 5

-----------------------------------------------------------------------------
(* Characters.                                                             *)

NL == "\n"
QUOTE == "\""
\* Option<char>::None, as returned by peek and consume at the end of input
None == "None"

Digits == <<"0", "1", "2", "3", "4", "5", "6", "7", "8", "9">>

\* ch as u32 - ('0' as u32), for a digit ch
DigitValue(ch) == (CHOOSE i \in 1..10 : Digits[i] = ch) - 1

\* the character of a digit value 0..9
DigitChar(d) == Digits[d + 1]

Lower == {"a", "b", "c", "d", "e", "f", "g", "h", "i", "j", "k", "l", "m",
          "n", "o", "p", "q", "r", "s", "t", "u", "v", "w", "x", "y", "z"}

Upper == {"A", "B", "C", "D", "E", "F", "G", "H", "I", "J", "K", "L", "M",
          "N", "O", "P", "Q", "R", "S", "T", "U", "V", "W", "X", "Y", "Z"}

is_digit(c) == \E i \in 1..10 : Digits[i] = c

is_identifier(c) == c \in Lower \/ c \in Upper \/ c = "_"

is_aplhanumeric(c) == is_digit(c) \/ is_identifier(c)

Last(s) == s[Len(s)]

-----------------------------------------------------------------------------
(* u32 and f32.                                                            *)
(*                                                                         *)
(* A u32 is kept as two 16-bit limbs [hi, lo], its value hi * 2^16 + lo,   *)
(* so that the accumulator of parse_integer keeps its 32 bits.             *)
(* An f32 is kept as the decimal number it stands for: an integer part     *)
(* (limbs, at most 2^32) and the digits after the point without trailing   *)
(* zeros.  Conversion from u32 rounds to 24 bits of mantissa as `as f32`   *)
(* does; below 2^24 and with fewer than seven significant digits, which    *)
(* is where the model's fractions live, the decimal is the f32's shortest  *)
(* round-trip form.                                                        *)

Limb == 65536

U32Zero == [hi |-> 0, lo |-> 0]

\* res * 10 + digit, computed without the 32-bit limit: hi may exceed a limb
MulAdd(res, digit) ==
    LET lo2 == res.lo * 10 + digit
    IN  [hi |-> res.hi * 10 + lo2 \div Limb, lo |-> lo2 % Limb]

\* the result does not fit in a u32
Overflows(wide) == wide.hi >= Limb

\* the low 32 bits: what a build without overflow checks keeps
Wrap(wide) == [hi |-> wide.hi % Limb, lo |-> wide.lo]

RECURSIVE Pow(_, _)
Pow(b, n) == IF n = 0 THEN 1 ELSE b * Pow(b, n - 1)

RECURSIVE BitLen(_)
BitLen(n) == IF n = 0 THEN 0 ELSE 1 + BitLen(n \div 2)

\* the exponent s of the unit in the last place 2^s of an integer >= 2^24
UlpExp(v) == IF v.hi >= Limb THEN 9 ELSE BitLen(v.hi) - 8

\* `x as f32` for a u32 x: exact below 2^24, else round to nearest multiple
\* of the unit in the last place, ties to even
AsF32Int(v) ==
    IF v.hi < 256 THEN v
    ELSE LET u    == Pow(2, UlpExp(v))
             r    == v.lo % u
             down == v.lo - r
             up   == down + u
             odd  == (v.lo \div u) % 2 = 1
             goUp == 2 * r > u \/ (2 * r = u /\ odd)
         IN  IF ~goUp THEN [hi |-> v.hi, lo |-> down]
             ELSE IF up = Limb THEN [hi |-> v.hi + 1, lo |-> 0]
             ELSE [hi |-> v.hi, lo |-> up]

\* decimal digits of a limb pair, most significant first
RECURSIVE U32Digits(_)
U32Digits(v) ==
    IF v.hi = 0 /\ v.lo < 10 THEN <<DigitChar(v.lo)>>
    ELSE LET t == (v.hi % 10) * Limb + v.lo
         IN  U32Digits([hi |-> v.hi \div 10, lo |-> t \div 10])
                 \o <<DigitChar(t % 10)>>

RECURSIVE StripTrailingZeros(_)
StripTrailingZeros(ds) ==
    IF ds # <<>> /\ Last(ds) = "0"
    THEN StripTrailingZeros(SubSeq(ds, 1, Len(ds) - 1))
    ELSE ds

RECURSIVE PadLeft(_, _)
PadLeft(ds, n) == IF Len(ds) >= n THEN ds ELSE PadLeft(<<"0">> \o ds, n)

RECURSIVE Zeros(_)
Zeros(n) == IF n = 0 THEN <<>> ELSE <<"0">> \o Zeros(n - 1)

\* the number a digit string of at most nine digits denotes
RECURSIVE DigitsValue(_)
DigitsValue(ds) ==
    IF ds = <<>> THEN 0
    ELSE DigitsValue(SubSeq(ds, 1, Len(ds) - 1)) * 10 + DigitValue(Last(ds))

\* a digit string plus one
RECURSIVE IncDigits(_)
IncDigits(ds) ==
    IF ds = <<>> THEN <<"1">>
    ELSE IF Last(ds) = "9"
         THEN IncDigits(SubSeq(ds, 1, Len(ds) - 1)) \o <<"0">>
         ELSE SubSeq(ds, 1, Len(ds) - 1) \o <<DigitChar(DigitValue(Last(ds)) + 1)>>

\* an f32: integer part and fraction digits
F32(int, frac) == [int |-> int, frac |-> frac]

\* fr as f32 / 10_f32.powi(len): the digits after the point
FracDigits(fr, len) == StripTrailingZeros(PadLeft(U32Digits(fr), len))

\* num + fraction in f32: from 2^24 on a fraction below one is rounded away
AddFrac(num, frac) == IF num.int.hi >= 256 THEN num ELSE F32(num.int, frac)

\* The shortest decimal that reads back as the f32 integer v >= 2^24: the
\* multiple of the largest power of ten 10^k lying within half a unit in
\* the last place of v (bounds included when the mantissa is even).
ShortestInt(v) ==
    LET ds    == U32Digits(v)
        s     == UlpExp(v)
        u     == Pow(2, s)
        pow2  == v.lo = 0 /\ (v.hi >= Limb \/ v.hi = Pow(2, BitLen(v.hi) - 1))
        up2   == u
        low2  == IF pow2 THEN u \div 2 ELSE u
        even  == v.hi >= Limb \/ (v.lo \div u) % 2 = 0
        Within(d2, w2) == IF even THEN d2 <= w2 ELSE d2 < w2
        tailv(k) == DigitsValue(SubSeq(ds, Len(ds) - k + 1, Len(ds)))
        DownOk(k) == Within(2 * tailv(k), low2)
        UpOk(k)   == Within(2 * (Pow(10, k) - tailv(k)), up2)
        ks    == {k \in 1..(Len(ds) - 1) : k <= 9 /\ (DownOk(k) \/ UpOk(k))}
    IN  IF ks = {} THEN ds
        ELSE LET k    == CHOOSE x \in ks : \A y \in ks : y <= x
                 head == SubSeq(ds, 1, Len(ds) - k)
             IN  IF DownOk(k) /\ (~UpOk(k) \/ 2 * tailv(k) <= Pow(10, k))
                 THEN head \o Zeros(k)
                 ELSE IncDigits(head) \o Zeros(k)

\* f32::to_string (Display): no exponent, no trailing ".0"
NumToString(num) ==
    LET ip == IF num.int.hi >= 256 THEN ShortestInt(num.int)
              ELSE U32Digits(num.int)
    IN  IF num.frac = <<>> THEN ip ELSE ip \o <<".">> \o num.frac

-----------------------------------------------------------------------------
(* Tokens (src/lexer/types.rs, src/lexer/token.rs).                        *)

\* a payload-free TokenType
Kind(k) == [kind |-> k]

String(s) == [kind |-> "String", str |-> s]
Identifier(s) == [kind |-> "Identifier", str |-> s]
UnterminatedString(s) == [kind |-> "UnterminatedString", str |-> s]
Number(n) == [kind |-> "Number", num |-> n]

EOF == Kind("EOF")
Unknown == Kind("Unknown")

Keywords ==
    { <<<<"a", "n", "d">>, "AND">>,
      <<<<"c", "l", "a", "s", "s">>, "CLASS">>,
      <<<<"e", "l", "s", "e">>, "ELSE">>,
      <<<<"f", "a", "l", "s", "e">>, "FALSE">>,
      <<<<"f", "o", "r">>, "FOR">>,
      <<<<"f", "u", "n">>, "FUN">>,
      <<<<"i", "f">>, "IF">>,
      <<<<"n", "i", "l">>, "NIL">>,
      <<<<"o", "r">>, "OR">>,
      <<<<"p", "r", "i", "n", "t">>, "PRINT">>,
      <<<<"r", "e", "t", "u", "r", "n">>, "RETURN">>,
      <<<<"s", "u", "p", "e", "r">>, "SUPER">>,
      <<<<"t", "h", "i", "s">>, "THIS">>,
      <<<<"t", "r", "u", "e">>, "TRUE">>,
      <<<<"v", "a", "r">>, "VAR">>,
      <<<<"w", "h", "i", "l", "e">>, "WHILE">> }

\* Option<T> for the values that are records
Some(x) == [some |-> TRUE, value |-> x]
NoneOpt == [some |-> FALSE]

\* Option<TokenType>: the keyword kind, or None
check_keyword(str) ==
    IF \E kw \in Keywords : kw[1] = str
    THEN Some(Kind((CHOOSE kw \in Keywords : kw[1] = str)[2]))
    ELSE NoneOpt

Token(token_type, lexeme, ln, ch) ==
    [token_type |-> token_type, lexeme |-> lexeme, line |-> ln, character |-> ch]

-----------------------------------------------------------------------------
(* The scanner (src/lexer/lexer.rs).  A lexer state L is the record of     *)
(* the three mutable fields [current, line, character]; every method that  *)
(* takes &mut self returns the new state next to its result.               *)

peek(L) ==
    IF L.current < Len(characters) THEN characters[L.current + 1] ELSE None

consume(L) ==
    [current   |-> L.current + 1,
     line      |-> IF peek(L) = NL THEN L.line + 1 ELSE L.line,
     character |-> IF peek(L) = NL THEN 1 ELSE L.character]

match_next(L, expected) ==
    IF peek(L) = expected THEN [L |-> consume(L), matched |-> TRUE]
    ELSE [L |-> L, matched |-> FALSE]

new_token(L, token_type, lexeme) == Token(token_type, lexeme, L.line, L.character)

RECURSIVE skip_whitespace(_)
skip_whitespace(L) ==
    IF peek(L) \in {" ", "\t", "\r", NL} THEN skip_whitespace(consume(L)) ELSE L

RECURSIVE parse_identifier_loop(_, _)
parse_identifier_loop(L, identifier) ==
    IF peek(L) # None /\ is_aplhanumeric(peek(L))
    THEN parse_identifier_loop(consume(L), Append(identifier, peek(L)))
    ELSE [L |-> L, identifier |-> identifier]

parse_identifier(L) == parse_identifier_loop(L, <<>>)

\* The loop of parse_integer.  overflow records that res * 10 + digit left
\* the u32 range at some iteration; res then carries the wrapped value.
RECURSIVE parse_integer_loop(_, _, _, _)
parse_integer_loop(L, res, consumed, overflow) ==
    IF peek(L) # None /\ is_digit(peek(L))
    THEN LET wide == MulAdd(res, DigitValue(peek(L)))
         IN  parse_integer_loop(consume(L), Wrap(wide), consumed + 1,
                                overflow \/ Overflows(wide))
    ELSE [L |-> L, res |-> res, consumed |-> consumed, overflow |-> overflow]

parse_integer(L) == parse_integer_loop(L, U32Zero, 0, FALSE)

parse_number(L) ==
    LET ip  == parse_integer(L)
        num == F32(AsF32Int(ip.res), <<>>)
        dot == match_next(ip.L, ".")
    IN  IF dot.matched /\ peek(dot.L) # None /\ is_digit(peek(dot.L))
        THEN LET fp == parse_integer(dot.L)
             IN  [L |-> fp.L,
                  num |-> AddFrac(num, FracDigits(AsF32Int(fp.res), fp.consumed)),
                  overflow |-> ip.overflow \/ fp.overflow]
        ELSE [L |-> dot.L, num |-> num, overflow |-> ip.overflow]

\* parse_string_loop with the newline consumed before the token is made
RECURSIVE parse_string_loop_newline_consumed(_, _, _)
parse_string_loop_newline_consumed(L, literal, lexeme) ==
    IF peek(L) = None
    THEN [L |-> L, tok |-> new_token(L, UnterminatedString(literal), lexeme)]
    ELSE LET ch      == peek(L)
             lexeme2 == Append(lexeme, ch)
         IN  IF ch = NL
             THEN [L |-> consume(L),
                   tok |-> new_token(consume(L), UnterminatedString(literal),
                                     lexeme2)]
             ELSE IF ch = QUOTE
             THEN [L |-> consume(L),
                   tok |-> new_token(consume(L), String(literal), lexeme2)]
             ELSE parse_string_loop_newline_consumed(consume(L),
                                                     Append(literal, ch), lexeme2)

RECURSIVE parse_string_loop(_, _, _)
parse_string_loop(L, literal, lexeme) ==
    IF peek(L) = None
    THEN [L |-> L, tok |-> new_token(L, UnterminatedString(literal), lexeme)]
    ELSE LET ch      == peek(L)
             lexeme2 == Append(lexeme, ch)
         IN  IF ch = NL
             THEN [L |-> L,
                   tok |-> new_token(L, UnterminatedString(literal), lexeme2)]
             ELSE IF ch = QUOTE
             THEN [L |-> consume(L),
                   tok |-> new_token(consume(L), String(literal), lexeme2)]
             ELSE parse_string_loop(consume(L), Append(literal, ch), lexeme2)

parse_string_token(L) == parse_string_loop(L, <<>>, <<QUOTE>>)

RECURSIVE skip_comment(_)
skip_comment(L) ==
    IF peek(L) # NL /\ peek(L) # None THEN skip_comment(consume(L)) ELSE L

SingleChar ==
    { <<"(", "LeftParen">>, <<")", "RightParen">>, <<"{", "LeftBrace">>,
      <<"}", "RightBrace">>, <<"*", "Star">>, <<".", "Dot">>, <<",", "Comma">>,
      <<";", "Semicolon">>, <<"+", "Plus">>, <<"-", "Minus">> }

\* first character, kind when followed by '=', kind otherwise
WithEqual ==
    { <<"=", "EqualEqual", "Equal">>, <<"!", "BangEqual", "Bang">>,
      <<">", "GreaterEqual", "Greater">>, <<"<", "LessEqual", "Less">> }

\* The result of next_token: the new lexer state, the token, the cursor at
\* the token's first character (after whitespace and comments), and whether
\* a u32 overflowed on the way.
Scanned(L, tok, start, overflow) ==
    [L |-> L, tok |-> tok, start |-> start, overflow |-> overflow]

RECURSIVE next_token(_)
next_token(L0) ==
    LET S  == skip_whitespace(L0)
        ch == peek(S)
        L  == consume(S)
    IN  IF ch = None THEN Scanned(L, new_token(L, EOF, <<>>), S.current, FALSE)
        ELSE IF \E e \in SingleChar : e[1] = ch
        THEN Scanned(L, new_token(L, Kind((CHOOSE e \in SingleChar : e[1] = ch)[2]),
                                  <<ch>>), S.current, FALSE)
        ELSE IF ch = "/"
        THEN IF peek(L) = "/"
             THEN next_token(skip_comment(L))
             ELSE Scanned(L, new_token(L, Kind("Slash"), <<"/">>), S.current, FALSE)
        ELSE IF \E e \in WithEqual : e[1] = ch
        THEN LET e == CHOOSE x \in WithEqual : x[1] = ch
                 m == match_next(L, "=")
             IN  IF m.matched
                 THEN Scanned(m.L, new_token(m.L, Kind(e[2]), <<ch, "=">>),
                              S.current, FALSE)
                 ELSE Scanned(m.L, new_token(m.L, Kind(e[3]), <<ch>>),
                              S.current, FALSE)
        ELSE IF ch = QUOTE
        THEN LET r == parse_string_token(L)
             IN  Scanned(r.L, r.tok, S.current, FALSE)
        ELSE IF is_digit(ch)
        THEN LET r == parse_number(L)
             IN  Scanned(r.L, new_token(r.L, Number(r.num), NumToString(r.num)),
                         S.current, r.overflow)
        ELSE IF is_identifier(ch)
        THEN LET r  == parse_identifier(L)
                 kw == check_keyword(r.identifier)
             IN  IF kw.some
                 THEN Scanned(r.L, new_token(r.L, kw.value, r.identifier),
                              S.current, FALSE)
                 ELSE Scanned(r.L, new_token(r.L, Identifier(r.identifier),
                                             r.identifier), S.current, FALSE)
        ELSE Scanned(L, new_token(L, Unknown, <<ch>>), S.current, FALSE)

-----------------------------------------------------------------------------
(* Expressions (src/ast/expr.rs) and the printer (src/ast/printer.rs).     *)

new_binary_expr(expr1, op, expr2) ==
    [kind |-> "Binary", left |-> expr1, op |-> op, right |-> expr2]

new_unary_expr(op, expr) == [kind |-> "Unary", op |-> op, expr |-> expr]

new_grouping_expr(expr) == [kind |-> "Grouping", expr |-> expr]

Literal(token) == [kind |-> "Literal", value |-> token]

NotImplemented ==
    <<"n", "o", "t", " ", "i", "m", "p", "l", "e", "m", "e", "n", "t", "e", "d">>

visit_literal_expr(token) ==
    IF token.token_type.kind = "String" THEN token.token_type.str
    ELSE IF token.token_type.kind = "Number" THEN NumToString(token.token_type.num)
    ELSE NotImplemented

\* a printer of the infix form the grammar reads: operand, operator,
\* operand, and a group as its parentheses
RECURSIVE print_infix(_)
print_infix(expr) ==
    IF expr.kind = "Unary"
    THEN expr.op.lexeme \o print_infix(expr.expr)
    ELSE IF expr.kind = "Binary"
    THEN print_infix(expr.left) \o <<" ">> \o expr.op.lexeme \o <<" ">>
             \o print_infix(expr.right)
    ELSE IF expr.kind = "Grouping"
    THEN <<"(">> \o print_infix(expr.expr) \o <<")">>
    ELSE visit_literal_expr(expr.value)

\* AstPrinter::print, through the four visit_* methods
RECURSIVE print(_)
print(expr) ==
    IF expr.kind = "Unary"
    THEN <<"(">> \o expr.op.lexeme \o <<" ">> \o print(expr.expr) \o <<")">>
    ELSE IF expr.kind = "Binary"
    THEN <<"(">> \o expr.op.lexeme \o <<" ">> \o print(expr.left) \o <<" ">>
             \o print(expr.right) \o <<")">>
    ELSE IF expr.kind = "Grouping"
    THEN <<"(", "g", "r", "o", "u", "p", " ">> \o print(expr.expr) \o <<")">>
    ELSE visit_literal_expr(expr.value)

-----------------------------------------------------------------------------
(* The parser (src/ast/syntax_tree.rs).  A parser state P is the record    *)
(* [tokens, current] of SyntaxTree; a Result is Ok(expr) or Err(error)     *)
(* next to the parser state the call leaves behind.                        *)

SyntaxTree(toks) == [tokens |-> toks, current |-> 0]

\* ParserError::new
ParserError(token, message) ==
    [message   |-> message,
     line      |-> IF token.some THEN token.value.line ELSE 0,
     character |-> IF token.some THEN token.value.character ELSE 0]

Ok(expr, P) == [ok |-> TRUE, expr |-> expr, P |-> P]
Err(err, P) == [ok |-> FALSE, err |-> err, P |-> P]

peek_token(P) ==
    IF P.current < Len(P.tokens) THEN Some(P.tokens[P.current + 1]) ELSE NoneOpt

consume_token(P) ==
    [P |-> [P EXCEPT !.current = @ + 1], tok |-> peek_token(P)]

\* expected_types.contains(&token.token_type), for payload-free kinds
Contains(expected_types, token) == token.token_type.kind \in expected_types

\* Result<(), ParserError>: Ok carries no expression
expect(P, expected_types) ==
    LET c == consume_token(P)
    IN  IF ~c.tok.some
        THEN Err(ParserError(NoneOpt,
                 "Expected a ) to close the expression, but arrived at EOF"), c.P)
        ELSE IF Contains(expected_types, c.tok.value)
        THEN [ok |-> TRUE, P |-> c.P]
        ELSE Err(ParserError(c.tok, "Expected one of types, but got"), c.P)

matches(P, expected_types) ==
    LET t == peek_token(P)
    IN  IF t.some /\ Contains(expected_types, t.value)
        THEN [P |-> consume_token(P).P, tok |-> t]
        ELSE [P |-> P, tok |-> NoneOpt]

EqualityOps == {"EqualEqual", "BangEqual"}
ComparisionOps == {"Greater", "GreaterEqual", "Less", "LessEqual"}
TermOps == {"Plus", "Minus"}
FactorOps == {"Star", "Slash"}
UnaryOps == {"Bang", "Minus"}
\* LiteralKinds with the error-bearing kinds and EOF let through
LiteralKinds_with_error_kinds ==
    {"String", "Number", "Identifier", "TRUE", "FALSE", "NIL",
     "Unknown", "UnterminatedString", "EOF"}

LiteralKinds == {"String", "Number", "Identifier", "TRUE", "FALSE", "NIL"}

\* LevelOps with the operators of term and factor exchanged
LevelOps_term_factor_swapped(level) ==
    CASE level = 1 -> EqualityOps
      [] level = 2 -> ComparisionOps
      [] level = 3 -> FactorOps
      [] level = 4 -> TermOps

\* The four binary levels share one shape: parse an operand of the next
\* level, then fold `left op right` while an operator of the level follows.
\* Level 1 is equality, 2 comparision, 3 term, 4 factor.
LevelOps(level) ==
    CASE level = 1 -> EqualityOps
      [] level = 2 -> ComparisionOps
      [] level = 3 -> TermOps
      [] level = 4 -> FactorOps

RECURSIVE binary_level(_, _), binary_loop(_, _, _), unary(_), primary(_)

equality(P) == binary_level(1, P)
comparision(P) == binary_level(2, P)
term(P) == binary_level(3, P)
factor(P) == binary_level(4, P)

expression(P) == equality(P)

\* comparision() in equality, term() in comparision, factor() in term,
\* unary() in factor
operand(level, P) == IF level = 4 THEN unary(P) ELSE binary_level(level + 1, P)

\* binary_loop with the right operand parsed at the same level: the fold
\* leans to the right
binary_loop_right(level, expr, P) ==
    LET m == matches(P, LevelOps(level))
    IN  IF ~m.tok.some THEN Ok(expr, P)
        ELSE LET right == binary_level(level, m.P)
             IN  IF ~right.ok THEN right
                 ELSE Ok(new_binary_expr(expr, m.tok.value, right.expr), right.P)

\* the while loop of a level, entered with the expression folded so far
binary_loop(level, expr, P) ==
    LET m == matches(P, LevelOps(level))
    IN  IF ~m.tok.some THEN Ok(expr, P)
        ELSE LET right == operand(level, m.P)
             IN  IF ~right.ok THEN right
                 ELSE binary_loop(level,
                                  new_binary_expr(expr, m.tok.value, right.expr),
                                  right.P)

binary_level(level, P) ==
    LET first == operand(level, P)
    IN  IF ~first.ok THEN first ELSE binary_loop(level, first.expr, first.P)

unary(P) ==
    LET m == matches(P, UnaryOps)
    IN  IF ~m.tok.some THEN primary(P)
        ELSE LET inner == unary(m.P)
             IN  IF ~inner.ok THEN inner
                 ELSE Ok(new_unary_expr(m.tok.value, inner.expr), inner.P)

\* primary whose group branch calls expect before it looks at the result of
\* the inner expression: a token is consumed after the first error
primary_expect_after_error(P) ==
    LET c == consume_token(P)
    IN  IF ~c.tok.some
        THEN Err(ParserError(NoneOpt, "Unexpected end of file"), c.P)
        ELSE IF c.tok.value.token_type.kind \in LiteralKinds
        THEN Ok(Literal(c.tok.value), c.P)
        ELSE IF c.tok.value.token_type.kind = "LeftParen"
        THEN LET inner == expression(c.P)
                 close == expect(inner.P, {"RightParen"})
             IN  IF ~inner.ok THEN Err(inner.err, close.P)
                 ELSE IF ~close.ok THEN close
                 ELSE Ok(new_grouping_expr(inner.expr), close.P)
        ELSE Err(ParserError(c.tok,
                 "Unexpected type of token, expected a literal but got"), c.P)

primary(P) ==
    LET c == consume_token(P)
    IN  IF ~c.tok.some
        THEN Err(ParserError(NoneOpt, "Unexpected end of file"), c.P)
        ELSE IF c.tok.value.token_type.kind \in LiteralKinds
        THEN Ok(Literal(c.tok.value), c.P)
        ELSE IF c.tok.value.token_type.kind = "LeftParen"
        THEN LET inner == expression(c.P)
             IN  IF ~inner.ok THEN inner
                 ELSE LET close == expect(inner.P, {"RightParen"})
                      IN  IF ~close.ok THEN close
                          ELSE Ok(new_grouping_expr(inner.expr), close.P)
        ELSE Err(ParserError(c.tok,
                 "Unexpected type of token, expected a literal but got"), c.P)

-----------------------------------------------------------------------------
(* f32 arithmetic of the interpreter (src/ast/interpreter.rs).  A float    *)
(* is a sign, a mantissa and a binary exponent, its value m * 2^e with m   *)
(* odd or zero, or an infinity, or NaN.  Every operation rounds its exact  *)
(* result to 24 bits of mantissa, ties to even.  The exponent range and    *)
(* subnormal numbers are out of reach of the model's operands.             *)

Fin(neg, m, e) == [cls |-> "fin", neg |-> neg, m |-> m, e |-> e]
Inf(neg) == [cls |-> "inf", neg |-> neg, m |-> 0, e |-> 0]
NaN == [cls |-> "nan", neg |-> FALSE, m |-> 0, e |-> 0]

\* the canonical form: an odd mantissa, or zero with exponent zero
RECURSIVE Normalize(_, _, _)
Normalize(neg, m, e) ==
    IF m = 0 THEN Fin(neg, 0, 0)
    ELSE IF m % 2 = 0 THEN Normalize(neg, m \div 2, e + 1)
    ELSE Fin(neg, m, e)

\* m * 2^e (plus a nonzero remainder below the last bit when sticky) rounded
\* to a mantissa of 24 bits, ties to even
Round24(neg, m, e, sticky) ==
    IF BitLen(m) <= 24 THEN Normalize(neg, m, e)
    ELSE LET s    == BitLen(m) - 24
             q    == m \div Pow(2, s)
             r    == m % Pow(2, s)
             half == Pow(2, s - 1)
             up   == r > half \/ (r = half /\ (sticky \/ q % 2 = 1))
         IN  Normalize(neg, IF up THEN q + 1 ELSE q, e + s)

IsZero(a) == a.cls = "fin" /\ a.m = 0

\* the two finite operands as integers over their common unit 2^emin
Aligned(a, b) ==
    LET emin == IF a.e < b.e THEN a.e ELSE b.e
        Signed(x) == (IF x.neg THEN -1 ELSE 1) * x.m * Pow(2, x.e - emin)
    IN  [a |-> Signed(a), b |-> Signed(b), e |-> emin]

FNeg(a) == IF a.cls = "nan" THEN NaN ELSE [a EXCEPT !.neg = ~a.neg]

\* a + b
FAdd(a, b) ==
    IF a.cls = "nan" \/ b.cls = "nan" THEN NaN
    ELSE IF a.cls = "inf" /\ b.cls = "inf"
    THEN IF a.neg = b.neg THEN a ELSE NaN
    ELSE IF a.cls = "inf" THEN a
    ELSE IF b.cls = "inf" THEN b
    ELSE IF IsZero(a) /\ IsZero(b) THEN Fin(a.neg /\ b.neg, 0, 0)
    ELSE LET al  == Aligned(a, b)
             sum == al.a + al.b
         IN  IF sum = 0 THEN Fin(FALSE, 0, 0)
             ELSE Round24(sum < 0, IF sum < 0 THEN -sum ELSE sum, al.e, FALSE)

\* a - b
FSub(a, b) == FAdd(a, FNeg(b))

\* a * b
FMul(a, b) ==
    IF a.cls = "nan" \/ b.cls = "nan" THEN NaN
    ELSE IF (a.cls = "inf" /\ IsZero(b)) \/ (IsZero(a) /\ b.cls = "inf") THEN NaN
    ELSE IF a.cls = "inf" \/ b.cls = "inf" THEN Inf(a.neg # b.neg)
    ELSE Round24(a.neg # b.neg, a.m * b.m, a.e + b.e, FALSE)

\* a / b: the quotient of the mantissas is taken to at least 25 bits and a
\* sticky remainder, then rounded
FDiv(a, b) ==
    IF a.cls = "nan" \/ b.cls = "nan" THEN NaN
    ELSE IF a.cls = "inf" /\ b.cls = "inf" THEN NaN
    ELSE IF a.cls = "inf" THEN Inf(a.neg # b.neg)
    ELSE IF b.cls = "inf" THEN Fin(a.neg # b.neg, 0, 0)
    ELSE IF IsZero(b) THEN IF IsZero(a) THEN NaN ELSE Inf(a.neg # b.neg)
    ELSE IF IsZero(a) THEN Fin(a.neg # b.neg, 0, 0)
    ELSE LET k == 25 + BitLen(b.m) - BitLen(a.m)
             n == a.m * Pow(2, k)
         IN  Round24(a.neg # b.neg, n \div b.m, a.e - b.e - k, n % b.m # 0)

\* a == b of f32: NaN equals nothing, the two zeros are equal
FEq(a, b) ==
    IF a.cls = "nan" \/ b.cls = "nan" THEN FALSE
    ELSE IF IsZero(a) /\ IsZero(b) THEN TRUE
    ELSE a = b

\* |a| < |b| for finite a and b: by the position of the leading bit, then
\* by the mantissas over their common unit
MagLess(a, b) ==
    IF IsZero(b) THEN FALSE
    ELSE IF IsZero(a) THEN TRUE
    ELSE IF BitLen(a.m) + a.e # BitLen(b.m) + b.e
    THEN BitLen(a.m) + a.e < BitLen(b.m) + b.e
    ELSE LET al == Aligned([a EXCEPT !.neg = FALSE], [b EXCEPT !.neg = FALSE])
         IN  al.a < al.b

\* a < b of f32: false when either is NaN
FLess(a, b) ==
    IF a.cls = "nan" \/ b.cls = "nan" THEN FALSE
    ELSE IF a.cls = "inf" THEN a.neg /\ ~(b.cls = "inf" /\ b.neg)
    ELSE IF b.cls = "inf" THEN ~b.neg
    ELSE IF IsZero(a) /\ IsZero(b) THEN FALSE
    ELSE IF a.neg # b.neg THEN a.neg
    ELSE IF a.neg THEN MagLess(b, a)
    ELSE MagLess(a, b)

\* the payload of a Number token as a float: the integer part `as f32` plus
\* the fraction digits over their power of ten (parse_number)
FloatOf(num) ==
    LET ip == Normalize(FALSE, num.int.hi * Limb + num.int.lo, 0)
    IN  IF num.frac = <<>> THEN ip
        ELSE FAdd(ip, FDiv(Normalize(FALSE, DigitsValue(num.frac), 0),
                           Normalize(FALSE, Pow(10, Len(num.frac)), 0)))

\* usize::MAX, the value of `f32::INFINITY as usize`
UsizeMax == [max |-> TRUE, n |-> 0]

\* `num as usize`: toward zero, saturating, NaN to 0
AsUsize(a) ==
    IF a.cls = "nan" THEN [max |-> FALSE, n |-> 0]
    ELSE IF a.neg THEN [max |-> FALSE, n |-> 0]
    ELSE IF a.cls = "inf" THEN UsizeMax
    ELSE [max |-> FALSE,
          n |-> IF a.e >= 0 THEN a.m * Pow(2, a.e) ELSE a.m \div Pow(2, -a.e)]

-----------------------------------------------------------------------------
(* The interpreter (src/ast/interpreter.rs): runtime values, the visitor   *)
(* and Expr::accept.  A Result<Value, Error> is Ok with a value, Err with  *)
(* a message, or a panic, which ends the process.                          *)

ValueNumber(n) == [variant |-> "Number", num |-> n, str |-> <<>>, b |-> FALSE]
ValueString(str) == [variant |-> "String", num |-> NaN, str |-> str, b |-> FALSE]
ValueBoolean(b) == [variant |-> "Boolean", num |-> NaN, str |-> <<>>, b |-> b]
ValueNil == [variant |-> "Nil", num |-> NaN, str |-> <<>>, b |-> FALSE]

\* #[derive(PartialEq)] of Value
ValueEq(left, right) ==
    /\ left.variant = right.variant
    /\ CASE left.variant = "Number" -> FEq(left.num, right.num)
         [] left.variant = "String" -> left.str = right.str
         [] left.variant = "Boolean" -> left.b = right.b
         [] OTHER -> TRUE

OkValue(v) == [status |-> "Ok", value |-> v, message |-> <<>>]
ErrValue(message) == [status |-> "Err", value |-> ValueNil, message |-> message]
Panic(message) == [status |-> "Panic", value |-> ValueNil, message |-> message]

\* the printable characters in the order of their codes, from the space on
\* (the backslash and the grave accent left out)
Ascii ==
    <<" ", "!", QUOTE, "#", "$", "%", "&", "'", "(", ")", "*", "+",
      ",", "-", ".", "/", "0", "1", "2", "3", "4", "5", "6", "7",
      "8", "9", ":", ";", "<", "=", ">", "?", "@", "A", "B", "C",
      "D", "E", "F", "G", "H", "I", "J", "K", "L", "M", "N", "O",
      "P", "Q", "R", "S", "T", "U", "V", "W", "X", "Y", "Z", "[",
      "]", "^", "_", "a", "b", "c", "d", "e", "f", "g",
      "h", "i", "j", "k", "l", "m", "n", "o", "p", "q", "r", "s",
      "t", "u", "v", "w", "x", "y", "z", "{", "|", "}", "~">>

\* a < b of str: bytewise lexicographic
RECURSIVE StrLess(_, _)
StrLess(a, b) ==
    IF b = <<>> THEN FALSE
    ELSE IF a = <<>> THEN TRUE
    ELSE IF Head(a) # Head(b)
    THEN (CHOOSE i \in 1..Len(Ascii) : Ascii[i] = Head(a))
             < (CHOOSE i \in 1..Len(Ascii) : Ascii[i] = Head(b))
    ELSE StrLess(Tail(a), Tail(b))

RECURSIVE Repeated(_, _)
Repeated(str, n) == IF n = 0 THEN <<>> ELSE str \o Repeated(str, n - 1)

\* str.repeat(n): the capacity len * n must not exceed isize::MAX
repeat(str, n) ==
    IF ~n.max THEN OkValue(ValueString(Repeated(str, n.n)))
    ELSE IF str = <<>> THEN OkValue(ValueString(<<>>))
    ELSE Panic(<<"capacity overflow">>)

expect_number(v) ==
    IF v.variant = "Number" THEN OkValue(v)
    ELSE ErrValue(<<"Expected number value, got", v>>)

expect_boolean(v) ==
    IF v.variant = "Boolean" THEN OkValue(v)
    ELSE ErrValue(<<"Expected boolean value, got", v>>)

\* Interpreter::visit_literal_expr (the printer has a method of this name)
Interpreter_visit_literal_expr(value) ==
    CASE value.token_type.kind = "String" ->
             OkValue(ValueString(value.token_type.str))
      [] value.token_type.kind = "Number" ->
             OkValue(ValueNumber(FloatOf(value.token_type.num)))
      [] value.token_type.kind = "TRUE" -> OkValue(ValueBoolean(TRUE))
      [] value.token_type.kind = "FALSE" -> OkValue(ValueBoolean(FALSE))
      [] value.token_type.kind = "NIL" -> OkValue(ValueNil)
      [] OTHER -> Panic(<<"Unexpected token type", value.token_type>>)

\* left - right and left / right: expect_number()? on the left, then on the
\* right
Arithmetic(left, right, num) ==
    LET l == expect_number(left)
        r == expect_number(right)
    IN  IF l.status # "Ok" THEN l
        ELSE IF r.status # "Ok" THEN r
        ELSE OkValue(ValueNumber(num))

\* the four orderings, from `<` of the payloads
Ordering(kind, less, greater) ==
    CASE kind = "Greater" -> greater
      [] kind = "GreaterEqual" -> greater \/ (~less /\ ~greater)
      [] kind = "Less" -> less
      [] kind = "LessEqual" -> less \/ (~less /\ ~greater)

\* the match on op.token_type of visit_binary_expr, on the two values
binary_match(left, op, right) ==
    LET kind == op.token_type.kind
        both(variant) == left.variant = variant /\ right.variant = variant
    IN  CASE kind = "Plus" ->
                 IF both("Number")
                 THEN OkValue(ValueNumber(FAdd(left.num, right.num)))
                 ELSE IF both("String")
                 THEN OkValue(ValueString(left.str \o right.str))
                 ELSE ErrValue(<<"Cannot add values of different types",
                                 left, right>>)
          [] kind = "Minus" -> Arithmetic(left, right, FSub(left.num, right.num))
          [] kind = "Star" ->
                 IF both("Number")
                 THEN OkValue(ValueNumber(FMul(left.num, right.num)))
                 ELSE IF left.variant = "String" /\ right.variant = "Number"
                 THEN repeat(left.str, AsUsize(right.num))
                 ELSE ErrValue(<<"Cannot multiply values of different types",
                                 left, right>>)
          [] kind = "Slash" -> Arithmetic(left, right, FDiv(left.num, right.num))
          [] kind \in {"Greater", "GreaterEqual", "Less", "LessEqual"} ->
                 IF both("Number")
                 THEN OkValue(ValueBoolean(
                          IF left.num.cls = "nan" \/ right.num.cls = "nan"
                          THEN FALSE
                          ELSE Ordering(kind, FLess(left.num, right.num),
                                        FLess(right.num, left.num))))
                 ELSE IF both("String")
                 THEN OkValue(ValueBoolean(
                          Ordering(kind, StrLess(left.str, right.str),
                                   StrLess(right.str, left.str))))
                 ELSE ErrValue(<<"Cannot compare values of different types",
                                 left, right>>)
          [] kind = "EqualEqual" -> OkValue(ValueBoolean(ValueEq(left, right)))
          [] kind = "BangEqual" -> OkValue(ValueBoolean(~ValueEq(left, right)))
          [] OTHER -> Panic(<<"Unexpected operator", op.token_type>>)

\* a variant of the match with the truthiness of Lox for `!`: nil and
\* false are falsey, every other value is truthy
unary_match_truthy(op, val) ==
    CASE op.token_type.kind = "Minus" ->
             IF expect_number(val).status = "Ok"
             THEN OkValue(ValueNumber(FNeg(val.num)))
             ELSE expect_number(val)
      [] op.token_type.kind = "Bang" ->
             OkValue(ValueBoolean(val.variant = "Nil"
                                      \/ (val.variant = "Boolean" /\ ~val.b)))
      [] OTHER -> Panic(<<"Unexpected operator", op.token_type>>)

\* the match on op.token_type of visit_unary_expr, on the value
unary_match(op, val) ==
    CASE op.token_type.kind = "Minus" ->
             IF expect_number(val).status = "Ok"
             THEN OkValue(ValueNumber(FNeg(val.num)))
             ELSE expect_number(val)
      [] op.token_type.kind = "Bang" ->
             IF expect_boolean(val).status = "Ok"
             THEN OkValue(ValueBoolean(~val.b))
             ELSE expect_boolean(val)
      [] OTHER -> Panic(<<"Unexpected operator", op.token_type>>)

RECURSIVE accept(_)

visit_binary_expr(left, op, right) ==
    LET l == accept(left)
    IN  IF l.status # "Ok" THEN l
        ELSE LET r == accept(right)
             IN  IF r.status # "Ok" THEN r
                 ELSE binary_match(l.value, op, r.value)

visit_grouping_expr(expr) == accept(expr)

visit_unary_expr(op, expr) ==
    LET val == accept(expr)
    IN  IF val.status # "Ok" THEN val ELSE unary_match(op, val.value)

\* Expr::accept with the Interpreter as visitor
accept(expr) ==
    CASE expr.kind = "Unary" -> visit_unary_expr(expr.op, expr.expr)
      [] expr.kind = "Binary" -> visit_binary_expr(expr.left, expr.op, expr.right)
      [] expr.kind = "Grouping" -> visit_grouping_expr(expr.expr)
      [] expr.kind = "Literal" -> Interpreter_visit_literal_expr(expr.value)

-----------------------------------------------------------------------------
(* Source texts.                                                           *)

SeqsUpTo(A, n) == UNION {[1..k -> A] : k \in 0..n}

RECURSIVE Flatten(_)
Flatten(ws) == IF ws = <<>> THEN <<>> ELSE Head(ws) \o Flatten(Tail(ws))

\* every text of at most MaxLen characters over a digit pair, the point,
\* two letters (of the keyword `or`), the quote, the newline, the space,
\* the slash, '=' and a character no rule knows
LexAlphabet == {"1", "5", ".", "o", "r", QUOTE, NL, " ", "/", "=", "@"}
LexSources == SeqsUpTo(LexAlphabet, MaxLen)

\* digit runs long enough to leave the u32 range
DigitAlphabet == {"4", "9"}
DigitSources == UNION {[1..k -> DigitAlphabet] : k \in 1..MaxDigits}

\* expressions and near-expressions: words of the four binary levels
ParseWords == {<<"1">>, <<"+">>, <<"-">>, <<"*">>, <<"=", "=">>, <<">">>}
ExprSources == {Flatten(ws) : ws \in SeqsUpTo(ParseWords, MaxWords)}

\* inputs of the repository's tests and of the specification's scenarios
TestSources ==
    { <<"1", "2", " ", "+", " ", "3", "4">>,
      <<"1", "2", " ", "=", "=", " ", "3", "4", " ", "=", "=", " ", "5", "6">>,
      <<"1", "2", " ", ">", " ", "3", "4", " ", ">", " ", "5", "6">>,
      <<"1", "2", " ", "*", " ", "3", "4", " ", "*", " ", "5", "6">>,
      <<"1", "2", " ", "/", " ", "3", "4", " ", "/", " ", "5", "6">>,
      <<"1", "2", ".">>,
      <<"t", "r", "u", "e">>,
      <<"n", "i", "l">>,
      <<"f", "o", "o">>,
      <<QUOTE, "a", "b", "c">>,
      <<"7">>,
      <<"1", ".", "5">> }

\* parentheses around operands and a sign that is unary or binary
GroupWords == {<<"(">>, <<")">>, <<"1">>, <<"-">>}
GroupSources == {Flatten(ws) : ws \in SeqsUpTo(GroupWords, MaxGroupWords)}

\* the specification's scenarios with a group, a unary chain and the whole
\* ladder, and the two leftover inputs `1 2` and `1 )`
ScenarioSources ==
    { <<"(", "1", "2", " ", "+", " ", "3", "4", ")", " ", "*", " ", "5", "6">>,
      <<"!", "-", "1", "2">>,
      <<"-", "1", "2", " ", "*", " ", "3", "4", " ", "/", " ", "5", "6", " ",
        ">", " ", "7", "8", " ", "=", "=", " ", "9", "0">>,
      <<"1", " ", "2">>,
      <<"1", " ", ")">> }

Sources ==
    LexSources \cup DigitSources \cup ExprSources \cup TestSources
        \cup GroupSources \cup ScenarioSources

\* Operands of every runtime variant.  The scanner drops the first
\* character of a number and of a word, so `12` is read as 2, `10` as 0,
\* `10.5` as 0.5, `13` as 3, and `xtrue`, `xfalse`, `xnil` as the keywords.
EvalOperands ==
    { <<"1", "2">>, <<"1", "0">>, <<"1", "0", ".", "5">>, <<"1", "3">>,
      <<QUOTE, "a", QUOTE>>, <<QUOTE, "b", QUOTE>>,
      <<"x", "t", "r", "u", "e">>, <<"x", "f", "a", "l", "s", "e">>,
      <<"x", "n", "i", "l">>, <<"f", "o", "o">> }

BinaryWords ==
    { <<"+">>, <<"-">>, <<"*">>, <<"/">>, <<">">>, <<">", "=">>, <<"<">>,
      <<"<", "=">>, <<"=", "=">>, <<"!", "=">> }

UnaryWords == { <<"-">>, <<"!">> }

\* an operand alone; one operator between two operands, either of them
\* under a unary operator; one and two unary operators on an operand; a
\* group
OperatorSources ==
    EvalOperands
        \cup {a \o op \o b : a \in EvalOperands, op \in BinaryWords, b \in EvalOperands}
        \cup {a \o op \o u \o b : a \in EvalOperands, op \in BinaryWords,
                                 u \in UnaryWords, b \in EvalOperands}
        \cup {u \o a \o op \o b : u \in UnaryWords, a \in EvalOperands,
                                 op \in BinaryWords, b \in EvalOperands}
        \cup {u \o a : u \in UnaryWords, a \in EvalOperands}
        \cup {u \o v \o a : u \in UnaryWords, v \in UnaryWords, a \in EvalOperands}
        \cup {<<"(">> \o a \o <<")">> : a \in EvalOperands}

\* inputs of test_interpreter and of the specification's scenarios, a
\* string times an infinity, and inputs with an error-bearing token
EvalScenarios ==
    { <<"1", "1", " ", "+", " ", "(", "1", "2", " ", "-", " ", "1", "3", ")",
        " ", "*", " ", "1", "4">>,
      <<QUOTE, "H", "e", "l", "l", "o", QUOTE, " ", "+", " ", QUOTE, " ", QUOTE,
        " ", "+", " ", QUOTE, "W", "o", "r", "l", "d", QUOTE>>,
      <<"1", "2", " ", "+", " ", QUOTE, "H", "e", "l", "l", "o", QUOTE>>,
      <<"x", "t", "r", "u", "e", " ", "+", " ", "x", "f", "a", "l", "s", "e">>,
      <<"(", "1", "1", " ", "=", "=", " ", "1", "2", ")", " ", "+", " ", "1", "3">>,
      <<QUOTE, "a", QUOTE, " ", "*", " ", "(", "1", "2", " ", "/", " ", "1", "0", ")">>,
      <<QUOTE, QUOTE, " ", "*", " ", "(", "1", "2", " ", "/", " ", "1", "0", ")">>,
      <<"1", "2", " ", "@">>,
      <<"@">>,
      <<"1", "2", " ", "+", " ", "@">>,
      <<QUOTE, "a", "b">>,
      <<"1", "2", " ", QUOTE, "a", "b">> }

EvalSources == OperatorSources \cup EvalScenarios

\* trees to print and parse again: the tests, the scenarios and the short
\* sources with groups
RoundTripSources ==
    TestSources \cup ScenarioSources
        \cup {Flatten(ws) : ws \in SeqsUpTo(GroupWords, 3)}

\* a command with its input
Invocations ==
    ({"parse"} \X Sources) \cup ({"evaluate"} \X EvalSources)
        \cup ({"reparse"} \X RoundTripSources)

\* the commands main knows, and two words it does not know
Commands == {"tokenize", "parse", "evaluate"}
UnknownCommands == {"run", ""}

\* the file named on the command line
ReadableFile(contents) == [readable |-> TRUE, contents |-> contents]
Unreadable == [readable |-> FALSE, contents |-> <<>>]

\* texts for the tokenize command, with and without error-bearing tokens
TokenizeSources == TestSources \cup ScenarioSources \cup EvalScenarios

\* what main is started with: the number of arguments, the command and the
\* file.  With fewer than three arguments there is no filename, with fewer
\* than two no command.
Launches ==
    {[args_len |-> 3, command |-> invocation[1],
      file |-> ReadableFile(invocation[2])] : invocation \in Invocations}
        \cup {[args_len |-> 3, command |-> "tokenize", file |-> ReadableFile(s)] :
                  s \in TokenizeSources}
        \cup {[args_len |-> 3, command |-> c, file |-> ReadableFile(s)] :
                  c \in UnknownCommands, s \in TestSources}
        \cup {[args_len |-> 3, command |-> c, file |-> Unreadable] :
                  c \in Commands \cup UnknownCommands}
        \cup {[args_len |-> 2, command |-> c, file |-> Unreadable] :
                  c \in Commands \cup UnknownCommands}
        \cup {[args_len |-> 1, command |-> "", file |-> Unreadable]}

-----------------------------------------------------------------------------
(* The pipeline: Lexer::new, Lexer::get_tokens, SyntaxTree::expression.    *)

NotParsed == [state |-> "not parsed"]
NotEvaluated == [status |-> "not evaluated", value |-> ValueNil, message |-> <<>>]
NoTree == [kind |-> "none"]

\* exit codes: the constants of main, success, the code of a panic, and
\* the mark of a process that has not ended
EXIT_FILE_ERROR == 1
EXIT_LEXICAL_ERROR == 65
RUNTIME_ERROR == 70
EXIT_SUCCESS == 0
EXIT_PANIC == 101
Running == -1

\* the Lexer's mutable fields as a lexer state
Lexer == [current |-> current, line |-> line, character |-> character]

\* Token::is_error
is_error(token) == token.token_type.kind \in {"Unknown", "UnterminatedString"}

\* the process at the entry of main
Init ==
    /\ \E l \in Launches :
           args_len = l.args_len /\ command = l.command /\ file = l.file
    /\ characters = <<>>
    /\ stderr = <<>>
    /\ stdout = <<>>
    /\ outcome = NotEvaluated
    /\ exit_code = Running
    /\ original = NoTree
    /\ current = 0
    /\ line = 1
    /\ character = 1
    /\ tokens = <<>>
    /\ spans = <<>>
    /\ wrapped = FALSE
    /\ pc = "main"
    /\ result = NotParsed

\* main with fewer than three arguments: the usage line goes to stderr and
\* the process exits with EXIT_FILE_ERROR
usage ==
    /\ pc = "main"
    /\ args_len < 3
    /\ stderr' = Append(stderr, <<"Usage:">>)
    /\ exit_code' = EXIT_FILE_ERROR
    /\ pc' = "exit"
    /\ UNCHANGED <<characters, current, line, character, tokens, spans, wrapped,
                   result, command, stdout, outcome, original, launch>>

\* fs::read_to_string(filename).unwrap_or_else(..), Lexer::new and the
\* match on the command: a file that cannot be read leaves a message on
\* stderr and an empty String as the contents
read_file ==
    /\ pc = "main"
    /\ args_len >= 3
    /\ characters' = IF file.readable THEN file.contents ELSE <<>>
    /\ stderr' = IF file.readable THEN stderr
                 ELSE Append(stderr, <<"Failed to read file">>)
    /\ current' = 0
    /\ line' = 1
    /\ character' = 1
    /\ pc' = IF command \in Commands \cup {"reparse"} THEN "scan" ELSE "unknown"
    /\ UNCHANGED <<tokens, spans, wrapped, result, command, stdout, outcome,
                   exit_code, original, launch>>

\* the last arm of the match: the message goes to stderr and main returns
unknown_command ==
    /\ pc = "unknown"
    /\ stderr' = Append(stderr, <<"Unknown command:", command>>)
    /\ exit_code' = EXIT_SUCCESS
    /\ pc' = "exit"
    /\ UNCHANGED <<characters, current, line, character, tokens, spans, wrapped,
                   result, command, stdout, outcome, original, launch>>

\* get_tokens leaving its loop before the EOF token is pushed
get_tokens_eof_not_pushed ==
    /\ pc = "scan"
    /\ LET r   == next_token(Lexer)
           eof == r.tok.token_type = EOF
       IN  /\ current' = r.L.current
           /\ line' = r.L.line
           /\ character' = r.L.character
           /\ tokens' = IF eof THEN tokens ELSE Append(tokens, r.tok)
           /\ spans' = IF eof THEN spans
                       ELSE Append(spans, [from |-> r.start, to |-> r.L.current])
           /\ wrapped' = (wrapped \/ r.overflow)
           /\ pc' = IF eof THEN "scanned" ELSE "scan"
    /\ UNCHANGED <<characters, result, command, stdout, outcome, exit_code,
                   original, launch,
                   stderr>>

\* One iteration of the loop of get_tokens: next_token, then push.  In a
\* build without overflow checks a u32 overflow wraps and the scan goes on.
get_tokens ==
    /\ pc = "scan"
    /\ LET r == next_token(Lexer)
       IN  /\ current' = r.L.current
           /\ line' = r.L.line
           /\ character' = r.L.character
           /\ tokens' = Append(tokens, r.tok)
           /\ spans' = Append(spans, [from |-> r.start, to |-> r.L.current])
           /\ wrapped' = (wrapped \/ r.overflow)
           /\ pc' = IF r.tok.token_type = EOF THEN "scanned" ELSE "scan"
    /\ UNCHANGED <<characters, result, command, stdout, outcome, exit_code,
                   original, launch,
                   stderr>>

\* In a build with overflow checks (debug, test) the first u32 overflow of
\* parse_integer panics: the process aborts inside next_token.
overflow_panic ==
    /\ pc = "scan"
    /\ ~wrapped
    /\ next_token(Lexer).overflow
    /\ pc' = "panic"
    /\ UNCHANGED <<characters, current, line, character, tokens, spans,
                   wrapped, result, command, stdout, outcome, exit_code,
                   original, launch,
                   stderr>>

\* the tokenize command: every token that is not an error is printed to
\* stdout, every error token to stderr (as tokenized_string formats them);
\* an error token makes the exit code EXIT_LEXICAL_ERROR
tokenize ==
    /\ pc = "scanned"
    /\ command = "tokenize"
    /\ stdout' = SelectSeq(tokens, LAMBDA token : ~is_error(token))
    /\ stderr' = stderr \o SelectSeq(tokens, is_error)
    /\ exit_code' = IF \E i \in 1..Len(tokens) : is_error(tokens[i])
                    THEN EXIT_LEXICAL_ERROR
                    ELSE EXIT_SUCCESS
    /\ pc' = "exit"
    /\ UNCHANGED <<characters, current, line, character, tokens, spans, wrapped,
                   result, command, outcome, original, launch>>

\* SyntaxTree::new(tokens).expression()
parse ==
    /\ pc = "scanned"
    /\ command # "tokenize"
    /\ result' = expression(SyntaxTree(tokens))
    /\ pc' = "parsed"
    /\ UNCHANGED <<characters, current, line, character, tokens, spans, wrapped,
                   command, stdout, outcome, exit_code, original, launch,
                   stderr>>

\* the Err arm of the parse and of the evaluate command: the message goes
\* to stderr and the process exits with EXIT_LEXICAL_ERROR
report_error ==
    /\ pc = "parsed"
    /\ command \in {"parse", "evaluate"}
    /\ ~result.ok
    /\ stderr' = Append(stderr, <<"[line", result.err.line, result.err.message>>)
    /\ exit_code' = EXIT_LEXICAL_ERROR
    /\ pc' = "exit"
    /\ UNCHANGED <<characters, current, line, character, tokens, spans, wrapped,
                   result, command, stdout, outcome, original, launch>>

\* the Ok arm of the parse command: println!("{}", AstPrinter::print(expr))
print_tree ==
    /\ pc = "parsed"
    /\ command = "parse"
    /\ result.ok
    /\ stdout' = print(result.expr)
    /\ exit_code' = EXIT_SUCCESS
    /\ pc' = "exit"
    /\ UNCHANGED <<characters, current, line, character, tokens, spans, wrapped,
                   result, command, outcome, original, launch,
                   stderr>>

\* Interpreter::new(expr).evaluate(): the tree is handed to the visitor
Interpreter_evaluate(expr) == accept(expr)

\* the Ok arm of the evaluate command: the value is printed, a runtime
\* error exits with RUNTIME_ERROR, a panic aborts the process
evaluate ==
    /\ pc = "parsed"
    /\ command = "evaluate"
    /\ result.ok
    /\ LET val == Interpreter_evaluate(result.expr)
       IN  /\ outcome' = val
           /\ exit_code' = CASE val.status = "Ok" -> EXIT_SUCCESS
                              [] val.status = "Err" -> RUNTIME_ERROR
                              [] OTHER -> EXIT_PANIC
           /\ stderr' = IF val.status = "Ok" THEN stderr
                        ELSE Append(stderr, val.message)
           /\ pc' = IF val.status = "Panic" THEN "abort" ELSE "exit"
    /\ UNCHANGED <<characters, current, line, character, tokens, spans, wrapped,
                   result, command, stdout, original, launch>>

\* the round trip: the tree is printed and a new Lexer is made on the
\* printed text, to be scanned and parsed as before
reparse ==
    /\ pc = "parsed"
    /\ command = "reparse"
    /\ result.ok
    /\ original = NoTree
    /\ original' = result.expr
    /\ stdout' = print(result.expr)
    /\ characters' = print(result.expr)
    /\ current' = 0
    /\ line' = 1
    /\ character' = 1
    /\ tokens' = <<>>
    /\ spans' = <<>>
    /\ result' = NotParsed
    /\ pc' = "scan"
    /\ UNCHANGED <<wrapped, command, outcome, exit_code,
                   launch, stderr>>

Next ==
    \/ usage
    \/ read_file
    \/ unknown_command
    \/ get_tokens
    \/ tokenize
    \/ overflow_panic
    \/ parse
    \/ report_error
    \/ print_tree
    \/ evaluate
    \/ reparse

Spec == Init /\ [][Next]_vars

-----------------------------------------------------------------------------
(* Vocabulary of the properties.                                           *)

\* get_tokens has returned its vector
Returned ==
    \/ pc \in {"scanned", "parsed", "abort"}
    \/ pc = "exit" /\ args_len >= 3 /\ command \notin UnknownCommands

TokenKinds == [i \in 1..Len(tokens) |-> tokens[i].token_type.kind]

\* the index of the first c in s, or 0
IndexOf(s, c) ==
    IF \E i \in 1..Len(s) : s[i] = c
    THEN CHOOSE i \in 1..Len(s) : s[i] = c /\ \A j \in 1..(i - 1) : s[j] # c
    ELSE 0

IsDigitRun(s) == s # <<>> /\ \A i \in 1..Len(s) : is_digit(s[i])

\* digits, optionally followed by a point and digits
IsNumberText(s) ==
    LET d == IndexOf(s, ".")
    IN  IF d = 0 THEN IsDigitRun(s)
        ELSE IsDigitRun(SubSeq(s, 1, d - 1)) /\ IsDigitRun(SubSeq(s, d + 1, Len(s)))

ToU32(n) == [hi |-> n \div Limb, lo |-> n % Limb]

\* the decimal number a number text of at most nine integer digits denotes
Denoted(s) ==
    LET d == IndexOf(s, ".")
    IN  IF d = 0 THEN F32(ToU32(DigitsValue(s)), <<>>)
        ELSE F32(ToU32(DigitsValue(SubSeq(s, 1, d - 1))),
                 StripTrailingZeros(SubSeq(s, d + 1, Len(s))))

\* the last index of the run of letters, digits and '_' that starts at i
RECURSIVE RunEnd(_)
RunEnd(i) ==
    IF i + 1 <= Len(characters) /\ is_aplhanumeric(characters[i + 1])
    THEN RunEnd(i + 1) ELSE i

\* the first index from i on that holds a quote or a newline; Len + 1 if none
RECURSIVE StringStop(_)
StringStop(i) ==
    IF i <= Len(characters) /\ characters[i] \notin {QUOTE, NL}
    THEN StringStop(i + 1) ELSE i

\* newlines among the first n characters of the source
CountNL(n) == Cardinality({k \in 1..n : characters[k] = NL})

\* the source text consumed for token i (nothing for EOF)
Consumed(i) ==
    SubSeq(characters, spans[i].from + 1,
           IF spans[i].to > Len(characters) THEN Len(characters) ELSE spans[i].to)

\* the text skipped before token i: whitespace and comments
Skipped(i) ==
    SubSeq(characters, (IF i = 1 THEN 0 ELSE spans[i - 1].to) + 1, spans[i].from)

\* skipped text and lexemes of the first n tokens, in source order
RECURSIVE Rebuilt(_)
Rebuilt(n) ==
    IF n = 0 THEN <<>> ELSE Rebuilt(n - 1) \o Skipped(n) \o tokens[n].lexeme

-----------------------------------------------------------------------------
(* The claims.                                                             *)

\* C1: a source that is a run of digits, optionally followed by a point and
\* digits, scans to one Number token whose value is the number the whole
\* text denotes (first digit included), and `12 + 34` parses to the tree
\* printed as (+ 12 34).
C1_NumberValue ==
    /\ (Returned /\ IsNumberText(characters) /\ Len(characters) <= 7)
          => /\ Len(tokens) = 2
             /\ tokens[1].token_type = Number(Denoted(characters))
    /\ (pc = "parsed" /\ characters = <<"1", "2", " ", "+", " ", "3", "4">>)
          => /\ result.ok
             /\ print(result.expr) = <<"(", "+", " ", "1", "2", " ", "3", "4", ")">>

\* C2: a token that starts on a letter or '_' covers the maximal run w of
\* letters, digits and '_' from there; it is the keyword kind when w is in
\* the keyword table and Identifier(w) otherwise, and its lexeme is w.
C2_IdentifierOrKeyword ==
    \A i \in 1..Len(tokens) :
        (spans[i].from < Len(characters)
            /\ is_identifier(characters[spans[i].from + 1]))
        => LET w == SubSeq(characters, spans[i].from + 1, RunEnd(spans[i].from + 1))
           IN  /\ tokens[i].lexeme = w
               /\ tokens[i].token_type =
                      (IF check_keyword(w).some THEN check_keyword(w).value
                       ELSE Identifier(w))

\* C3: the lexemes of the returned tokens, with the skipped whitespace and
\* comments between them, concatenate to the source; each lexeme is the
\* exact text consumed for its token.
C3_LexemesRebuildSource ==
    Returned =>
        /\ Rebuilt(Len(tokens)) = characters
        /\ \A i \in 1..Len(tokens) : tokens[i].lexeme = Consumed(i)

\* C4: the returned vector ends with an EOF token and holds no EOF token
\* at an earlier index (and none at all while the scan is running).
C4_EofLastAndOnce ==
    /\ \A i \in 1..(Len(tokens) - 1) : tokens[i].token_type # EOF
    /\ Returned => (tokens # <<>> /\ Last(tokens).token_type = EOF)
    /\ ~Returned => (tokens = <<>> \/ Last(tokens).token_type # EOF)

\* C5: get_tokens terminates.  Every call of next_token made while the
\* scan is running returns, with the cursor moved forward and at most one
\* past the end of the source, and it returns EOF exactly when the cursor
\* passes the end: so EOF is returned after at most Len(characters) + 1
\* calls.
C5_GetTokensTerminates ==
    [][pc = "scan" =>
          /\ pc' \in {"scan", "scanned"}
          /\ current' > current
          /\ current' <= Len(characters) + 1
          /\ (pc' = "scanned") = (current' = Len(characters) + 1)]_vars

\* C5, the part that holds: every call of next_token that returns has moved
\* the cursor forward, the comment and unterminated-string branches included.
C5_CursorAdvances ==
    [][get_tokens =>
          /\ current' > current
          /\ current' <= Len(characters) + 1
          /\ (pc' = "scanned") = (current' = Len(characters) + 1)]_vars

\* C6: the scanner never fails, and the u32 accumulator of parse_integer
\* never leaves the u32 range.
C6_NoOverflow == pc # "panic" /\ ~wrapped

\* C7: a '.' after a digit run that no digit follows is not consumed with
\* the number: no Number token ends on a '.', and `12.` scans to Number,
\* Dot, EOF.
C7_TrailingDotNotConsumed ==
    /\ \A i \in 1..Len(tokens) :
           tokens[i].token_type.kind = "Number" => characters[spans[i].to] # "."
    /\ (Returned /\ characters = <<"1", "2", ".">>)
          => TokenKinds = <<"Number", "Dot", "EOF">>

\* C8: a token that starts on a quote is String(c) with lexeme "c" when a
\* closing quote comes before any newline, c being the text between the
\* quotes; otherwise it is UnterminatedString(partial), the cursor is left
\* on the newline that stopped it, and that newline is no part of the token.
C8_StringToken ==
    \A i \in 1..Len(tokens) :
        (spans[i].from < Len(characters) /\ characters[spans[i].from + 1] = QUOTE)
        => LET open == spans[i].from + 1
               stop == StringStop(open + 1)
               c    == SubSeq(characters, open + 1, stop - 1)
           IN  IF stop <= Len(characters) /\ characters[stop] = QUOTE
               THEN /\ tokens[i].token_type = String(c)
                    /\ tokens[i].lexeme = <<QUOTE>> \o c \o <<QUOTE>>
                    /\ spans[i].to = stop
               ELSE /\ tokens[i].token_type = UnterminatedString(c)
                    /\ tokens[i].lexeme = <<QUOTE>> \o c
                    /\ spans[i].to = stop - 1

\* C9: every token carries as its line 1 plus the number of newlines before
\* its first character (for EOF: before the end of input); an
\* UnterminatedString stopped by a newline reports its opening quote's line.
C9_TokenLine ==
    \A i \in 1..Len(tokens) : tokens[i].line = 1 + CountNL(spans[i].from)

C9_Witness ==
    \E i \in 1..Len(tokens) :
        /\ tokens[i].token_type.kind = "UnterminatedString"
        /\ spans[i].to < Len(characters)
        /\ characters[spans[i].to + 1] = NL
        /\ tokens[i].line = 2

C4_Witness ==
    /\ pc = "scanned"
    /\ Len(tokens) = 3
    /\ current = Len(characters) + 1

\* the binary level of an operator kind: 1 equality .. 4 factor
BinaryLevel(kind) ==
    CASE kind \in EqualityOps -> 1
      [] kind \in ComparisionOps -> 2
      [] kind \in TermOps -> 3
      [] kind \in FactorOps -> 4
      [] OTHER -> 0

\* no Binary node has as right operand a Binary node of its own level
RECURSIVE NoSameLevelOnRight(_)
NoSameLevelOnRight(e) ==
    IF e.kind = "Binary"
    THEN /\ e.right.kind = "Binary"
               => BinaryLevel(e.right.op.token_type.kind)
                      # BinaryLevel(e.op.token_type.kind)
         /\ NoSameLevelOnRight(e.left)
         /\ NoSameLevelOnRight(e.right)
    ELSE IF e.kind = "Literal" THEN TRUE
    ELSE NoSameLevelOnRight(e.expr)

\* the tokens are a op1 b op2 c EOF with literal operands and two operators
\* of one binary level
ThreeOperands ==
    /\ Len(tokens) = 6
    /\ \A i \in {1, 3, 5} : TokenKinds[i] \in LiteralKinds
    /\ BinaryLevel(TokenKinds[2]) # 0
    /\ BinaryLevel(TokenKinds[2]) = BinaryLevel(TokenKinds[4])

\* C10: every binary level is left-associative: a op1 b op2 c with op1 and
\* op2 of one level parses to Binary(Binary(a, op1, b), op2, c), and no tree
\* holds Binary(a, op1, Binary(b, op2, c)) with op1 and op2 of one level.
C10_LeftAssociative ==
    pc = "parsed" =>
        /\ result.ok => NoSameLevelOnRight(result.expr)
        /\ ThreeOperands =>
              /\ result.ok
              /\ result.expr =
                     new_binary_expr(
                         new_binary_expr(Literal(tokens[1]), tokens[2],
                                         Literal(tokens[3])),
                         tokens[4], Literal(tokens[5]))

C10_Witness ==
    /\ pc = "parsed"
    /\ TokenKinds = <<"Number", "Plus", "Number", "Minus", "Number", "EOF">>
    /\ result.ok
    /\ result.expr.left.kind = "Binary"

\* the rung of a node on the precedence ladder: 1 equality, 2 comparison,
\* 3 term, 4 factor, 5 unary, 6 primary (a Grouping or a Literal)
PrecedenceLevel(e) ==
    IF e.kind = "Binary" THEN BinaryLevel(e.op.token_type.kind)
    ELSE IF e.kind = "Unary" THEN 5
    ELSE 6

\* every operand that is an operator of another rung than its parent is of
\* a higher rung, and no operand of a Unary is a Binary
RECURSIVE LadderRespected(_)
LadderRespected(e) ==
    IF e.kind = "Binary"
    THEN /\ PrecedenceLevel(e.left) >= PrecedenceLevel(e)
         /\ PrecedenceLevel(e.right) >= PrecedenceLevel(e)
         /\ LadderRespected(e.left)
         /\ LadderRespected(e.right)
    ELSE IF e.kind = "Unary"
    THEN PrecedenceLevel(e.expr) >= 5 /\ LadderRespected(e.expr)
    ELSE IF e.kind = "Grouping" THEN LadderRespected(e.expr)
    ELSE TRUE

\* the tokens are a op1 b op2 c EOF with literal operands and two binary
\* operators of different levels
TwoLevelsMixed ==
    /\ Len(tokens) = 6
    /\ \A i \in {1, 3, 5} : TokenKinds[i] \in LiteralKinds
    /\ BinaryLevel(TokenKinds[2]) # 0
    /\ BinaryLevel(TokenKinds[4]) # 0
    /\ BinaryLevel(TokenKinds[2]) # BinaryLevel(TokenKinds[4])

\* C11: the precedence ladder equality < comparison < term < factor < unary:
\* in every tree the parser returns, an operator that is an operand of an
\* operator of another level is of the higher level, and a op1 b op2 c with
\* op1 and op2 of different levels groups the higher one first, whichever
\* of the two comes first in the source.
C11_PrecedenceLadder ==
    pc = "parsed" =>
        /\ result.ok => LadderRespected(result.expr)
        /\ TwoLevelsMixed =>
              /\ result.ok
              /\ result.expr =
                     IF BinaryLevel(TokenKinds[2]) > BinaryLevel(TokenKinds[4])
                     THEN new_binary_expr(
                              new_binary_expr(Literal(tokens[1]), tokens[2],
                                              Literal(tokens[3])),
                              tokens[4], Literal(tokens[5]))
                     ELSE new_binary_expr(
                              Literal(tokens[1]), tokens[2],
                              new_binary_expr(Literal(tokens[3]), tokens[4],
                                              Literal(tokens[5])))

C11_Witness ==
    /\ pc = "parsed"
    /\ TokenKinds = <<"Number", "Plus", "Number", "Star", "Number", "EOF">>
    /\ result.ok
    /\ result.expr.right.kind = "Binary"


\* The tokens read one at a time, without a tree: i tokens are consumed, an
\* operand is awaited (need) or has just ended, inside depth open
\* parentheses.  The walk ends where the grammar of section 4.2 ends: with
\* success in front of the first token that cannot continue a complete
\* expression outside every parenthesis, with an error just after the first
\* token that no expression can hold at its place.
RECURSIVE Walk(_, _, _)
Walk(i, need, depth) ==
    IF i >= Len(tokens) THEN [ok |-> FALSE, current |-> i + 1]
    ELSE LET k == TokenKinds[i + 1]
         IN  IF need
             THEN IF k \in UnaryOps THEN Walk(i + 1, TRUE, depth)
                  ELSE IF k \in LiteralKinds THEN Walk(i + 1, FALSE, depth)
                  ELSE IF k = "LeftParen" THEN Walk(i + 1, TRUE, depth + 1)
                  ELSE [ok |-> FALSE, current |-> i + 1]
             ELSE IF BinaryLevel(k) # 0 THEN Walk(i + 1, TRUE, depth)
                  ELSE IF depth = 0 THEN [ok |-> TRUE, current |-> i]
                  ELSE IF k = "RightParen" THEN Walk(i + 1, FALSE, depth - 1)
                  ELSE [ok |-> FALSE, current |-> i + 1]

\* C12: for every token vector of the scanner, expression returns Ok or
\* Err; its cursor never leaves the vector (no read past the end), and on
\* an error the cursor stands just after the first token that cannot be
\* part of an expression: no token is consumed after the first error.
C12_ParserTotal ==
    pc = "parsed" =>
        /\ result.ok \in BOOLEAN
        /\ result.P.current <= Len(tokens)
        /\ result.ok = Walk(0, TRUE, 0).ok
        /\ result.P.current = Walk(0, TRUE, 0).current
        /\ ~result.ok => result.P.current >= 1

\* an error inside a group, with tokens left after the offending one
C12_Witness ==
    /\ pc = "parsed"
    /\ ~result.ok
    /\ "LeftParen" \in {TokenKinds[i] : i \in 1..result.P.current}
    /\ result.P.current + 1 < Len(tokens)


\* the tokens held by the nodes of a tree
RECURSIVE NodeTokens(_)
NodeTokens(e) ==
    IF e.kind = "Literal" THEN {e.value}
    ELSE IF e.kind = "Unary" THEN {e.op} \cup NodeTokens(e.expr)
    ELSE IF e.kind = "Binary"
    THEN {e.op} \cup NodeTokens(e.left) \cup NodeTokens(e.right)
    ELSE NodeTokens(e.expr)

RECURSIVE WellFormed(_)
WellFormed(e) ==
    IF e.kind = "Literal"
    THEN e.value.token_type.kind
             \in {"String", "Number", "Identifier", "TRUE", "FALSE", "NIL"}
    ELSE IF e.kind = "Unary"
    THEN e.op.token_type.kind \in {"Minus", "Bang"} /\ WellFormed(e.expr)
    ELSE IF e.kind = "Binary"
    THEN /\ e.op.token_type.kind
                \in {"Plus", "Minus", "Star", "Slash", "EqualEqual",
                     "BangEqual", "Greater", "GreaterEqual", "Less",
                     "LessEqual"}
         /\ WellFormed(e.left)
         /\ WellFormed(e.right)
    ELSE e.kind = "Grouping" /\ WellFormed(e.expr)

\* C13: every tree returned as Ok is well formed: a Literal holds a String,
\* Number, Identifier, TRUE, FALSE or NIL token, a Unary operator is Minus
\* or Bang, a Binary operator is one of the ten binary operators, and no
\* node holds an Unknown, UnterminatedString or EOF token.
C13_TreeWellFormed ==
    (pc = "parsed" /\ result.ok) =>
        /\ WellFormed(result.expr)
        /\ \A t \in NodeTokens(result.expr) :
               t.token_type.kind \notin {"Unknown", "UnterminatedString", "EOF"}

\* a tree is returned for a vector that holds an error-bearing token
C13_Witness ==
    /\ pc = "parsed"
    /\ result.ok
    /\ result.expr.kind = "Literal"
    /\ \E i \in 1..Len(tokens) : TokenKinds[i] \in {"Unknown", "UnterminatedString"}


\* C14: the parser rejects ill-formed input: expression returns Ok only when
\* the whole vector before EOF is one expression, so that on success the
\* cursor stands on the EOF token; tokens left over after a complete
\* expression (`1 2`, `1 )`) give a ParserError.
C14_RejectsLeftover ==
    (pc = "parsed" /\ result.ok) =>
        /\ result.P.current = Len(tokens) - 1
        /\ tokens[result.P.current + 1].token_type = EOF


\* the 1-based column of the source position after n characters: one more
\* than the number of characters since the last newline
Column(n) ==
    LET nls == {k \in 1..n : characters[k] = NL}
    IN  n + 1 - (IF nls = {} THEN 0 ELSE CHOOSE k \in nls : \A j \in nls : j <= k)

\* C15: a ParserError carries the (line, column) of the offending token,
\* and (0, 0) when the error is that EOF was reached unexpectedly (a
\* primary expected at the end of the input, or a missing ')' there).
C15_ErrorPosition ==
    (pc = "parsed" /\ ~result.ok) =>
        LET i == result.P.current
        IN  IF tokens[i].token_type = EOF
            THEN result.err.line = 0 /\ result.err.character = 0
            ELSE /\ result.err.line = 1 + CountNL(spans[i].from)
                 /\ result.err.character = Column(spans[i].from)

\* C15, the part that holds: the error carries the line and the character
\* field of the last token consumed, the EOF token included
C15_ErrorCarriesTokenFields ==
    (pc = "parsed" /\ ~result.ok) =>
        /\ result.err.line = tokens[result.P.current].line
        /\ result.err.character = tokens[result.P.current].character


\* the process has ended
Ended == pc \in {"exit", "abort"}

HasErrorToken ==
    \E i \in 1..Len(tokens) : TokenKinds[i] \in {"Unknown", "UnterminatedString"}

\* C16: in the parse and evaluate commands, when the scanned vector holds an
\* Unknown or UnterminatedString token at any position, the command ends
\* with exit code 65, no tree is printed and nothing is evaluated.
C16_ErrorTokenExits65 ==
    (Ended /\ command \in {"parse", "evaluate"} /\ HasErrorToken) =>
        /\ exit_code = EXIT_LEXICAL_ERROR
        /\ ~result.ok
        /\ stdout = <<>>
        /\ outcome = NotEvaluated

\* C16, the part that holds: an error-bearing token that the parser reaches
\* (none of the tokens is left unread) ends the command with exit code 65
C16_ReachedErrorTokenExits65 ==
    (Ended /\ command \in {"parse", "evaluate"} /\ HasErrorToken
       /\ result.P.current >= Len(tokens) - 1) =>
        /\ exit_code = EXIT_LEXICAL_ERROR
        /\ stdout = <<>>
        /\ outcome = NotEvaluated

\* the Binary nodes of a tree
RECURSIVE BinaryNodes(_)
BinaryNodes(e) ==
    IF e.kind = "Binary"
    THEN {e} \cup BinaryNodes(e.left) \cup BinaryNodes(e.right)
    ELSE IF e.kind = "Literal" THEN {}
    ELSE BinaryNodes(e.expr)

\* the operator table of section 4.3 on the values l and r and the result
\* out of the operator kind
Prescribed(kind, l, r, out) ==
    LET numbers == l.variant = "Number" /\ r.variant = "Number"
        strings == l.variant = "String" /\ r.variant = "String"
        error == out.status = "Err"
        gives(variant) == out.status = "Ok" /\ out.value.variant = variant
    IN  CASE kind = "Plus" ->
                 IF numbers
                 THEN gives("Number") /\ out.value.num = FAdd(l.num, r.num)
                 ELSE IF strings
                 THEN gives("String") /\ out.value.str = l.str \o r.str
                 ELSE error
          [] kind \in {"Minus", "Slash"} ->
                 IF numbers THEN gives("Number") ELSE error
          [] kind = "Star" ->
                 IF numbers
                 THEN gives("Number") /\ out.value.num = FMul(l.num, r.num)
                 ELSE IF l.variant = "String" /\ r.variant = "Number"
                 THEN /\ gives("String")
                      /\ \A i \in 1..Len(out.value.str) :
                             out.value.str[i] = l.str[((i - 1) % Len(l.str)) + 1]
                      /\ (r.num.cls = "fin" /\ ~r.num.neg) =>
                             Len(out.value.str)
                                 = Len(l.str) * AsUsize(r.num).n
                 ELSE error
          [] kind \in {"Greater", "GreaterEqual", "Less", "LessEqual"} ->
                 IF numbers \/ strings THEN gives("Boolean") ELSE error
          [] kind \in {"EqualEqual", "BangEqual"} ->
                 /\ gives("Boolean")
                 /\ l.variant # r.variant =>
                        out.value.b = (kind = "BangEqual")
          [] OTHER -> TRUE

\* `==` and `!=` are each other's negation on l and r
EqualityNegated(e, l, r) ==
    LET eq == binary_match(l, [e.op EXCEPT !.token_type.kind = "EqualEqual"], r)
        ne == binary_match(l, [e.op EXCEPT !.token_type.kind = "BangEqual"], r)
    IN  /\ eq.status = "Ok"
        /\ ne.status = "Ok"
        /\ eq.value.b = ~ne.value.b

\* the Binary node e, whose operands evaluate to values, evaluates as the
\* table prescribes
FollowsTable(e) ==
    LET l == accept(e.left)
        r == accept(e.right)
    IN  (l.status = "Ok" /\ r.status = "Ok") =>
            /\ Prescribed(e.op.token_type.kind, l.value, r.value, accept(e))
            /\ EqualityNegated(e, l.value, r.value)

\* a string times a count that `as usize` saturates
SaturatedRepeat(e) ==
    LET l == accept(e.left)
        r == accept(e.right)
    IN  /\ e.op.token_type.kind = "Star"
        /\ l.status = "Ok" /\ l.value.variant = "String" /\ l.value.str # <<>>
        /\ r.status = "Ok" /\ r.value.variant = "Number"
        /\ AsUsize(r.value.num).max

\* C17: for every binary operator and every pair of operand values,
\* visit_binary_expr returns what the operator table prescribes: the sum or
\* the concatenation for `+`, a Number for `-` and `/`, the product or the
\* repeated string for `*`, a Boolean for the orderings on two Numbers or
\* two Strings, a runtime error on every other pair, and for `==` and `!=`
\* never an error, false resp. true across variants, each the negation of
\* the other.
C17_OperatorTable ==
    (pc = "parsed" /\ command = "evaluate" /\ result.ok) =>
        \A e \in BinaryNodes(result.expr) : FollowsTable(e)

\* the table is followed wherever the repeat count is not saturated
C17_TableButSaturatedRepeat ==
    (pc = "parsed" /\ command = "evaluate" /\ result.ok) =>
        \A e \in BinaryNodes(result.expr) :
            ~SaturatedRepeat(e) => FollowsTable(e)

\* C18: evaluating a Literal whose token is an Identifier returns a runtime
\* error, which the evaluate command turns into exit code 70; the program
\* is not aborted.
C18_IdentifierIsRuntimeError ==
    (Ended /\ args_len >= 3 /\ command = "evaluate" /\ result.ok
         /\ result.expr.kind = "Literal"
         /\ result.expr.value.token_type.kind = "Identifier") =>
        /\ outcome.status = "Err"
        /\ exit_code = RUNTIME_ERROR
        /\ pc = "exit"

\* an Identifier literal aborts the evaluation
C18_IdentifierPanics ==
    (Ended /\ args_len >= 3 /\ command = "evaluate" /\ result.ok
         /\ result.expr.kind = "Literal"
         /\ result.expr.value.token_type.kind = "Identifier") =>
        /\ outcome.status = "Panic"
        /\ exit_code = EXIT_PANIC
        /\ pc = "abort"

\* the Unary nodes of a tree
RECURSIVE UnaryNodes(_)
UnaryNodes(e) ==
    IF e.kind = "Unary" THEN {e} \cup UnaryNodes(e.expr)
    ELSE IF e.kind = "Binary"
    THEN UnaryNodes(e.left) \cup UnaryNodes(e.right)
    ELSE IF e.kind = "Literal" THEN {}
    ELSE UnaryNodes(e.expr)

\* the Unary node e is strict on the type of its operand
UnaryStrict(e) ==
    LET val == accept(e.expr)
        out == accept(e)
        kind == e.op.token_type.kind
    IN  CASE val.status = "Err" -> out = val
          [] val.status = "Ok" /\ kind = "Minus" ->
                 IF val.value.variant = "Number"
                 THEN /\ out.status = "Ok"
                      /\ out.value.variant = "Number"
                      /\ out.value.num.cls = val.value.num.cls
                      /\ out.value.num.m = val.value.num.m
                      /\ out.value.num.e = val.value.num.e
                      /\ val.value.num.cls # "nan" =>
                             out.value.num.neg = ~val.value.num.neg
                 ELSE out.status = "Err"
          [] val.status = "Ok" /\ kind = "Bang" ->
                 IF val.value.variant = "Boolean"
                 THEN out = OkValue(ValueBoolean(~val.value.b))
                 ELSE out.status = "Err"
          [] OTHER -> TRUE

\* C19: unary evaluation is strict on the operand type: `-e` is Number(-n)
\* when e evaluates to Number(n) and a runtime error for a String, a Boolean
\* and Nil; `!e` is Boolean(not b) when e evaluates to Boolean(b) and a
\* runtime error for a Number, a String and Nil; an error of e is returned
\* unchanged.
C19_UnaryStrict ==
    (pc = "parsed" /\ command = "evaluate" /\ result.ok) =>
        \A e \in UnaryNodes(result.expr) : UnaryStrict(e)

\* `!` on a unary minus whose String operand is a runtime error
C19_Witness ==
    /\ pc = "parsed"
    /\ command = "evaluate"
    /\ result.ok
    /\ result.expr.kind = "Unary"
    /\ result.expr.op.token_type.kind = "Bang"
    /\ result.expr.expr.kind = "Unary"
    /\ accept(result.expr.expr).status = "Err"
    /\ accept(result.expr) = accept(result.expr.expr)

\* equal trees: the same shapes, operator kinds, literal kinds and payloads
\* (the positions and the lexemes of the tokens left aside)
RECURSIVE TreeEq(_, _)
TreeEq(a, b) ==
    /\ a.kind = b.kind
    /\ CASE a.kind = "Literal" ->
                /\ a.value.token_type.kind = b.value.token_type.kind
                /\ a.value.token_type = b.value.token_type
         [] a.kind = "Unary" ->
                /\ a.op.token_type.kind = b.op.token_type.kind
                /\ TreeEq(a.expr, b.expr)
         [] a.kind = "Binary" ->
                /\ a.op.token_type.kind = b.op.token_type.kind
                /\ TreeEq(a.left, b.left)
                /\ TreeEq(a.right, b.right)
         [] OTHER -> TreeEq(a.expr, b.expr)

\* every literal of the tree is a Number: its text has no whitespace and
\* no parenthesis, and the printer writes it as it is
RECURSIVE NumbersOnly(_)
NumbersOnly(e) ==
    IF e.kind = "Literal" THEN e.value.token_type.kind = "Number"
    ELSE IF e.kind = "Binary" THEN NumbersOnly(e.left) /\ NumbersOnly(e.right)
    ELSE NumbersOnly(e.expr)

\* the printed text of the tree `original` has been scanned and parsed
Reparsed == command = "reparse" /\ pc = "parsed" /\ original.kind # "none"

C20_UnaryReadAsGrouping ==
    ~(Reparsed /\ original.kind = "Unary" /\ result.ok)

\* the invocation has failed: too few arguments, or a file that cannot be
\* read
InvocationFailed == args_len < 3 \/ ~file.readable

\* C21: the program ends with a non-zero exit code on every invocation
\* failure: with exit code 1 when fewer than two arguments are given or the
\* file cannot be read, and no command is then run on empty contents; with
\* a non-zero exit code, after the message on stderr, when the command is
\* none of tokenize, parse, evaluate.
C21_InvocationFailureExitsNonZero ==
    Ended =>
        /\ InvocationFailed =>
               /\ exit_code = EXIT_FILE_ERROR
               /\ tokens = <<>>
               /\ stdout = <<>>
        /\ (args_len >= 3 /\ command \in UnknownCommands) =>
               /\ exit_code # EXIT_SUCCESS
               /\ stderr # <<>>

\* too few arguments end the process with EXIT_FILE_ERROR before anything
\* is read or scanned
C21_UsageExits1 ==
    (Ended /\ args_len < 3) =>
        /\ exit_code = EXIT_FILE_ERROR
        /\ stderr = <<<<"Usage:">>>>
        /\ tokens = <<>>
        /\ stdout = <<>>

\* a file that cannot be read is scanned as the empty text by the command,
\* whose exit code is that of the empty text
C21_UnreadableRunsOnEmpty ==
    (Ended /\ args_len >= 3 /\ ~file.readable) =>
        /\ characters = <<>>
        /\ stderr[1] = <<"Failed to read file">>
        /\ exit_code = CASE command = "tokenize" -> EXIT_SUCCESS
                         [] command \in {"parse", "evaluate"} -> EXIT_LEXICAL_ERROR
                         [] OTHER -> EXIT_SUCCESS
        /\ command = "tokenize" => Len(stdout) = 1

\* an unknown command leaves its message on stderr and main returns
C21_UnknownCommandExits0 ==
    (Ended /\ args_len >= 3 /\ command \in UnknownCommands) =>
        /\ exit_code = EXIT_SUCCESS
        /\ stderr[Len(stderr)] = <<"Unknown command:", command>>
        /\ tokens = <<>>

====
